---------------------------- MODULE Spec2Model ----------------------------
(***************************************************************************)
(* Model of the sync pipeline of telegram-bot-toko.                        *)
(*                                                                         *)
(*   scripts/sync.py          main(): the orchestrator                     *)
(*   src/data/downloader.py   DropboxDownloader                            *)
(*   src/data/validator.py    DataValidator                                *)
(*   src/data/extractor.py    DatabaseExtractor                            *)
(*   src/core/config.py       load_config                                  *)
(*                                                                         *)
(* One run of main() is a process p; its position in main() is pc[p].      *)
(* The file system (backups and exports directories), the database and the *)
(* clock are shared by all runs.  trace[p] records, in order, what run p   *)
(* has logged ("Step n" lines), the external effects it has performed and  *)
(* the stage calls that have returned.                                     *)
(*                                                                         *)
(* Spec        runs never overlap (one process slot, run after run)        *)
(* SpecRestore restore_database called on its own from any database state  *)
(* SpecCleanup cleanup_old_files called on its own on any export directory *)
(***************************************************************************)
EXTENDS Integers, Sequences, FiniteSets, TLC

\* ------------------------------------------------------------------ bounds
MaxRuns  == 2   \* runs started in one behaviour
MaxPre   == 2   \* export files present before the first run
MaxTicks == 1   \* minutes the wall clock advances
MaxRows  == 1   \* data rows of a dump
MaxKeep  == 2   \* largest retention count configured or passed
MaxFiles == 3   \* export files a directly called cleanup may find
MaxEntries == 3 \* entries of a list_folder response
MaxLiveRuns == 3 \* runs started one after the other, each to its end

\* ------------------------------------------------------------- vocabulary
Procs == {"p1", "p2"}
None  == "None"
NoFile == [absent |-> TRUE]

\* validator.py:14
REQUIRED_COLUMNS == {"namaitem", "konversi", "satuan", "hargapokok", "hargajual"}

\* extractor.py:125-131, the columns of the SELECT list
QueryColumns == {"namaitem", "konversi", "satuan", "hargapokok", "hargajual"}

\* names of export files: the minute stamp of <ddMMyyyy-HHmm>.csv
FirstMinute == MaxPre + 1
LastMinute  == FirstMinute + MaxTicks
Names == 1 .. LastMinute

\* a file name that ends neither in .csv nor in .i5bu
Other == 0
FileNames == {Other} \cup Names

VARIABLES
    pc,         \* [Procs -> position in main()]
    timestamp,  \* [Procs -> minute stamp taken at sync.py:36, or None]
    trace,      \* [Procs -> sequence of events of the current run]
    exc,        \* [Procs -> exception that ended the run, or None]
    rc,         \* [Procs -> value returned by main(), or None]
    phase,      \* [Procs -> index of the next command of restore_database]
    db0,        \* [Procs -> the database as it was when the run started]
    exports0,   \* [Procs -> exports_dir as it was when the run started]
    runs,       \* runs started so far
    cfg,        \* the environment read by load_config
    db,         \* the target database
    backups,    \* backups_dir: [FileNames -> file or NoFile]
    exports,    \* exports_dir: [FileNames -> file or NoFile]
    minute,     \* wall clock, in minutes
    wclock,     \* modification stamp given to the next file written
    call,       \* the last call of cleanup_old_files: its argument, the
                \* directory it found, what it unlinked, whether it returned
    direct,     \* a call of a method of the downloader or the validator
                \* made on its own: its input and its outcome
    passed,     \* the export files validate_csv has found valid in a run:
                \* <<name, modification stamp>>
    bot,        \* the globals of bot.py: csv_path, df and csv_loaded_at,
                \* the file df was read from and the position of load_csv
    overlap,    \* a run was started while another one was in progress
    failedIn    \* history, kept by the specification that reads it: the
                \* positions of main() at which a run has ended in an
                \* except clause

vars == <<pc, timestamp, trace, exc, rc, phase, db0, exports0, runs, cfg, db,
          backups, exports, minute, wclock, call, direct, passed, bot, overlap,
          failedIn>>

\* ------------------------------------------------------------ data values
AbsentDb == [exists |-> FALSE, tables |-> FALSE, rows |-> 0, nulls |-> FALSE]
EmptyDb  == [exists |-> TRUE,  tables |-> FALSE, rows |-> 0, nulls |-> FALSE]

\* what pg_restore makes of a non-empty artifact: an archive it restores
\* cleanly ("good"), one it restores with ignored errors ("warn", possibly
\* without the three relations of the export query), or no archive ("bad")
Archives ==
    { [kind |-> "good", tables |-> TRUE, rows |-> r, nulls |-> FALSE] :
          r \in {0, MaxRows} }
    \cup { [kind |-> "warn", tables |-> t, rows |-> IF t THEN MaxRows ELSE 0,
            nulls |-> FALSE] : t \in BOOLEAN }
    \cup { [kind |-> "bad", tables |-> FALSE, rows |-> 0, nulls |-> FALSE] }

NoArchive == [kind |-> "bad", tables |-> FALSE, rows |-> 0, nulls |-> FALSE]

DbStates ==
    {AbsentDb, EmptyDb}
    \cup { [exists |-> TRUE, tables |-> TRUE, rows |-> r, nulls |-> FALSE] :
              r \in {0, MaxRows} }

\* a file of backups_dir: the code reads its existence and its size only
BackupFile(size, stamp) == [mtime |-> stamp, size |-> size]

CsvFile(cols, rows, nulls, stamp) ==
    [mtime |-> stamp, cols |-> cols, rows |-> rows, nulls |-> nulls]

\* a file that is not an export, older than every export
OtherFile == [mtime |-> 0, cols |-> {}, rows |-> 0, nulls |-> FALSE]

EmptyDir == [n \in FileNames |-> NoFile]

Present(dir) == { n \in DOMAIN dir : dir[n] # NoFile }

\* the pattern matches every name
GlobEverything(dir) == Present(dir)

\* extractor.py:181 and bot.py:28  glob('*.csv') on a directory
Glob(dir) == { n \in Present(dir) : n \in Names }

\* ------------------------------------------- diagnostic output of commands
\* stderr is a sequence of tokens; str.lower() acts token by token
Marker == "errors ignored on restore"

LowerTok(t) ==
    CASE t = "WARNING:" -> "warning:"
      [] t = "ERROR:" -> "error:"
      [] t = "FATAL:" -> "fatal:"
      [] t = "Errors ignored on restore" -> "errors ignored on restore"
      [] OTHER -> t

Lower(s) == [i \in DOMAIN s |-> LowerTok(s[i])]

Contains(s, tok) == \E i \in DOMAIN s : s[i] = tok

Result(code, err, d) == [returncode |-> code, stderr |-> err, db |-> d]

\* dropdb without --if-exists: an absent database is an error
DropDbWithoutIfExists(d, up) ==
    IF ~up THEN Result(1, <<"dropdb:", "error:", "connection failed">>, d)
    ELSE IF ~d.exists
    THEN Result(1, <<"dropdb:", "error:", "does not exist">>, d)
    ELSE Result(0, <<>>, AbsentDb)

\* dropdb -h .. -p .. -U .. --if-exists <database>      (extractor.py:86)
\* up: the server accepts the connection and the command can run
DropDb(d, up) ==
    IF ~up THEN Result(1, <<"dropdb:", "error:", "connection failed">>, d)
    ELSE Result(0, <<>>, AbsentDb)

\* createdb -h .. -p .. -U .. <database>                  (extractor.py:87)
CreateDb(d, up) ==
    IF ~up THEN Result(1, <<"createdb:", "error:", "connection failed">>, d)
    ELSE IF d.exists
         THEN Result(1, <<"createdb:", "error:", "already exists">>, d)
         ELSE Result(0, <<>>, EmptyDb)

\* pg_restore -d <conn> --no-owner --no-privileges --disable-triggers <file>
\*                                                     (extractor.py:88-90)
\* archive: what the tool finds in the file
PgRestore(d, up, file, archive) ==
    IF ~up \/ ~d.exists
    THEN Result(1, <<"pg_restore:", "error:", "connection failed">>, d)
    ELSE IF file = NoFile
    THEN Result(1, <<"pg_restore:", "error:", "could not open input file">>, d)
    ELSE IF file.size = 0 \/ archive.kind = "bad"
    THEN Result(1, <<"pg_restore:", "error:", "not a valid archive">>, d)
    ELSE IF d.tables
    THEN Result(1, <<"pg_restore:", "WARNING:", "errors ignored on restore">>, d)
    ELSE IF archive.kind = "warn"
    THEN Result(1, <<"pg_restore:", "WARNING:", "errors ignored on restore">>,
                [exists |-> TRUE, tables |-> archive.tables,
                 rows |-> archive.rows, nulls |-> archive.nulls])
    ELSE Result(0, <<>>,
                [exists |-> TRUE, tables |-> TRUE,
                 rows |-> archive.rows, nulls |-> archive.nulls])

\* the commands list of restore_database, in order
CommandNames == <<"dropdb", "createdb", "pg_restore">>

RunCommand(i, d, up, file, archive) ==
    CASE i = 1 -> DropDb(d, up)
      [] i = 2 -> CreateDb(d, up)
      [] i = 3 -> PgRestore(d, up, file, archive)

\* the carve-out widened to every diagnostic output
BenignAlways(result) == TRUE

\* extractor.py:98  'errors ignored on restore' in result.stderr.lower()
Benign(result) == Contains(Lower(result.stderr), Marker)

\* the exit status is not inspected
AcceptedUnchecked(result) == TRUE

\* extractor.py:97-107: the command does not raise DatabaseError
Accepted(result) == result.returncode = 0 \/ Benign(result)

\* ------------------------------------------------------------- validator
\* the size is not looked at
ValidateBackupExistsOnly(file) ==
    IF file = NoFile THEN "ValidationError" ELSE "ok"

\* validate_backup_file: "ok" (returns True) or the exception it raises
validate_backup_file(file) ==
    IF file = NoFile THEN "ValidationError"
    ELSE IF file.size = 0 THEN "ValidationError"
    ELSE "ok"

\* (is_valid, error), the columns the error names and whether the null
\* warning was logged
Verdict(ok, reason, missing, warned) ==
    [valid |-> ok, error |-> reason, missing |-> missing, warned |-> warned]

\* null cells make the file invalid
ValidateCsvRejectsNulls(file) ==
    IF file = NoFile \/ file.cols = {}
    THEN Verdict(FALSE, "CSV validation failed", {}, FALSE)
    ELSE IF REQUIRED_COLUMNS \ file.cols # {}
    THEN Verdict(FALSE, "Missing columns", REQUIRED_COLUMNS \ file.cols, FALSE)
    ELSE IF file.rows = 0
    THEN Verdict(FALSE, "CSV file is empty", {}, FALSE)
    ELSE IF file.nulls
    THEN Verdict(FALSE, "Null values found", {}, TRUE)
    ELSE Verdict(TRUE, None, {}, FALSE)

\* df.empty is not tested
ValidateCsvSkipsEmptyCheck(file) ==
    IF file = NoFile \/ file.cols = {}
    THEN Verdict(FALSE, "CSV validation failed", {}, FALSE)
    ELSE IF REQUIRED_COLUMNS \ file.cols # {}
    THEN Verdict(FALSE, "Missing columns", REQUIRED_COLUMNS \ file.cols, FALSE)
    ELSE Verdict(TRUE, None, {}, file.nulls)

\* validate_csv: pd.read_csv raises on a missing file and on a file without
\* any column, and the except clause turns that into False; nulls: a
\* required column holds a null cell
validate_csv(file) ==
    IF file = NoFile \/ file.cols = {}
    THEN Verdict(FALSE, "CSV validation failed", {}, FALSE)
    ELSE IF REQUIRED_COLUMNS \ file.cols # {}
    THEN Verdict(FALSE, "Missing columns", REQUIRED_COLUMNS \ file.cols, FALSE)
    ELSE IF file.rows = 0
    THEN Verdict(FALSE, "CSV file is empty", {}, FALSE)
    ELSE Verdict(TRUE, None, {}, file.nulls)

\* ------------------------------------------------------------- retention
\* Optional[int]: <<>> is None, <<k>> is the integer k
Some(k) == <<k>>

\* extractor.py:178  keep_count = keep_count or self.config.max_csv_files
\* (`or` takes the right operand when the left one is None or 0)
KeepCount(keep_count, max_csv_files) ==
    IF keep_count = <<>> THEN max_csv_files
    ELSE IF keep_count[1] = 0 THEN max_csv_files
    ELSE keep_count[1]

\* the listings of the files S of dir with the modification times in
\* non-increasing order
RECURSIVE Sorted(_, _)
Sorted(dir, S) ==
    IF S = {} THEN {<<>>}
    ELSE UNION { { <<n>> \o rest : rest \in Sorted(dir, S \ {n}) } :
                 n \in { m \in S : \A o \in S : dir[m].mtime >= dir[o].mtime } }

\* reverse=True is left out: the oldest file comes first
SortedByMtimeAsc(dir) ==
    { [i \in DOMAIN l |-> l[Len(l) + 1 - i]] : l \in Sorted(dir, Glob(dir)) }

\* extractor.py:180-184  sorted(glob('*.csv'), key=st_mtime, reverse=True):
\* glob's order decides between files of equal modification time, so every
\* such listing is possible
SortedByMtimeDesc(dir) == Sorted(dir, Glob(dir))

\* the slice starts one position late
ToRemoveOffByOne(csv_files, keep) ==
    IF Len(csv_files) > keep + 1
    THEN SubSeq(csv_files, keep + 2, Len(csv_files)) ELSE <<>>

\* csv_files[-keep_count:] in place of csv_files[keep_count:]
ToRemoveOldest(csv_files, keep) ==
    IF Len(csv_files) > keep
    THEN SubSeq(csv_files, Len(csv_files) - keep + 1, Len(csv_files)) ELSE <<>>

\* extractor.py:186-187  csv_files[keep_count:] when len(csv_files) > keep_count
ToRemove(csv_files, keep) ==
    IF Len(csv_files) > keep
    THEN SubSeq(csv_files, keep + 1, Len(csv_files)) ELSE <<>>

Range(s) == { s[i] : i \in DOMAIN s }

\* extractor.py:188  old_file.unlink() for each name of the set
Unlink(dir, gone) == [n \in DOMAIN dir |-> IF n \in gone THEN NoFile ELSE dir[n]]

\* the record kept of a cleanup_old_files call: again, when it repeats the
\* call before it (same argument, which returned, no file written since);
\* pruned, when that earlier call unlinked a file
NoCall == [arg |-> <<>>, before |-> EmptyDir, removed |-> {}, returned |-> FALSE,
           again |-> FALSE, pruned |-> FALSE]

\* extractor.py:171-189  cleanup_old_files(keep_count) on directory dir, with
\* csv_files the sorted listing and done the unlink calls that succeed:
\* the directory afterwards
Cleaned(dir, keep_count, max_csv_files, csv_files, done) ==
    Unlink(dir, Range(SubSeq(ToRemove(csv_files, KeepCount(keep_count, max_csv_files)),
                             1, done)))

\* ------------------------------------------------------------ events
Ev(e, x) == [e |-> e, x |-> x, err |-> <<>>]

\* subprocess.run returned: the command, its exit status and its stderr
Ran(name, result) == [e |-> name, x |-> result.returncode, err |-> result.stderr]

Step(n) == Ev("step", n)      \* logger.info("Step n: ...")
Ok(n)   == Ev("ok", n)        \* the call(s) of stage n returned
UnlinkEvents(names) == [i \in DOMAIN names |-> Ev("unlink", names[i])]

\* ------------------------------------------------------------ downloader
\* an entry of the list_folder response: the extension of its name and its
\* server_modified time; its path is its position in the response
Extensions == {".i5bu", ".zip"}
Entries == [ext : Extensions, modified : 1..MaxEntries]

\* the 'entries' of a list_folder response
Responses == UNION { [1..k -> Entries] : k \in 0..MaxEntries }

\* the responses served to the runs of the pipeline: an empty folder, a
\* folder with a backup artifact, a folder with another file
PipelineResponses ==
    {<<>>} \cup { <<[ext |-> e, modified |-> 1]>> : e \in Extensions }

\* downloader.py:79-83  BackupFile(name, path, modified)
Artifact(path, entry) == [path |-> path, modified |-> entry.modified]

\* downloader.py:77-83  the entries whose name ends in .i5bu, in the order
\* of the response
RECURSIVE Files(_, _)
Files(response, i) ==
    IF i > Len(response) THEN <<>>
    ELSE IF response[i].ext = ".i5bu"
    THEN <<Artifact(i, response[i])>> \o Files(response, i + 1)
    ELSE Files(response, i + 1)

\* x goes before the first file that is not newer than x
RECURSIVE Insert(_, _)
Insert(x, s) ==
    IF s = <<>> THEN <<x>>
    ELSE IF Head(s).modified <= x.modified THEN <<x>> \o s
    ELSE <<Head(s)>> \o Insert(x, Tail(s))

\* downloader.py:86  sorted(files, key=modified, reverse=True): a stable
\* sort, files of equal time stay in the order of the response
RECURSIVE SortedByModifiedDesc(_)
SortedByModifiedDesc(files) ==
    IF files = <<>> THEN <<>>
    ELSE Insert(Head(files), SortedByModifiedDesc(Tail(files)))

\* the files are returned in the order of the response
ListBackupsUnsorted(response) == Files(response, 1)

\* downloader.py:76-86  what list_backups returns for a response
list_backups(response) == SortedByModifiedDesc(Files(response, 1))

\* an empty list passes
NoBackupsIgnored(files) == FALSE

\* downloader.py:107  if not backups
NoBackups(files) == files = <<>>

\* the token of the first refresh is sent again with the second API request
DownloadRequestsStaleToken ==
    <<Ev("token", 1), Ev("list_folder", 1), Ev("token", 2),
      Ev("get_temporary_link", 1), Ev("get", 0)>>

\* the requests of download_latest, in order: refresh_access_token and
\* list_folder (list_backups), refresh_access_token, get_temporary_link, GET.
\* A token event holds the serial number of the token the refresh returned,
\* an API request the token of its Authorization header: the local `token`
\* of downloader.py:66 and 111; the GET of the link carries none
DownloadRequests ==
    <<Ev("token", 1), Ev("list_folder", 1), Ev("token", 2),
      Ev("get_temporary_link", 2), Ev("get", 0)>>

\* downloader.py:85  logger.info(f"Found {len(files)} backup files")
Found(files) == Ev("found", Len(files))

NoOutcome == [raised |-> None, events |-> <<>>, returned |-> <<>>,
              requested |-> <<>>, saved |-> <<>>]

\* no call made yet
NoDirect == [fn |-> None, input |-> <<>>, out |-> NoOutcome]

\* downloader.py:55-90  list_backups(); failing: the request that raises
\* (0: none)
ListBackups(response, failing) ==
    IF failing \in 1..2
    THEN [NoOutcome EXCEPT !.raised = "DropboxError",
                           !.events = SubSeq(DownloadRequests, 1, failing)]
    ELSE [NoOutcome EXCEPT !.events = SubSeq(DownloadRequests, 1, 2)
                                        \o <<Found(list_backups(response))>>,
                           !.returned = list_backups(response)]

\* the destination is opened for writing before the GET has returned
DownloadLatestWritesFirst(response, failing, size) ==
    LET listed == ListBackups(response, failing)
        backups_ == listed.returned
    IN
      IF listed.raised # None THEN listed
      ELSE IF NoBackups(backups_)
      THEN [listed EXCEPT !.raised = "DropboxError", !.returned = <<>>]
      ELSE IF backups_ = <<>>
      THEN [listed EXCEPT !.raised = "IndexError", !.returned = <<>>]
      ELSE LET latest == backups_[1] IN
        IF failing # 0
        THEN [listed EXCEPT !.raised = "DropboxError", !.returned = <<>>,
                            !.events = @ \o SubSeq(DownloadRequests, 3, failing),
                            !.requested = IF failing >= 4
                                          THEN <<latest.path>> ELSE <<>>,
                            !.saved = IF failing = 5
                                      THEN <<[path |-> latest.path, size |-> 0]>>
                                      ELSE <<>>]
        ELSE [listed EXCEPT !.returned = <<>>,
                            !.events = @ \o SubSeq(DownloadRequests, 3, 5),
                            !.requested = <<latest.path>>,
                            !.saved = <<[path |-> latest.path, size |-> size]>>]

\* downloader.py:92-138  download_latest(destination); size: the bytes the
\* GET returns.  requested: the path sent to get_temporary_link; saved: the
\* path whose bytes were written to destination, and how many
download_latest(response, failing, size) ==
    LET listed == ListBackups(response, failing)
        backups_ == listed.returned
    IN
      IF listed.raised # None THEN listed
      ELSE IF NoBackups(backups_)
      THEN [listed EXCEPT !.raised = "DropboxError", !.returned = <<>>]
      ELSE IF backups_ = <<>>
      THEN [listed EXCEPT !.raised = "IndexError", !.returned = <<>>]
      ELSE LET latest == backups_[1] IN
        IF failing # 0
        THEN [listed EXCEPT !.raised = "DropboxError", !.returned = <<>>,
                            !.events = @ \o SubSeq(DownloadRequests, 3, failing),
                            !.requested = IF failing >= 4
                                          THEN <<latest.path>> ELSE <<>>]
        ELSE [listed EXCEPT !.returned = <<>>,
                            !.events = @ \o SubSeq(DownloadRequests, 3, 5),
                            !.requested = <<latest.path>>,
                            !.saved = <<[path |-> latest.path, size |-> size]>>]

\* ------------------------------------------------- main(): control flow
\* the export is not validated before cleanup
AfterSkipsExportValidation(stage) ==
    CASE stage = "load_config"     -> "download"
      [] stage = "download"        -> "validate_backup"
      [] stage = "validate_backup" -> "ensure_db"
      [] stage = "ensure_db"       -> "restore"
      [] stage = "restore"         -> "export"
      [] stage = "export"          -> "cleanup"
      [] stage = "validate_csv"    -> "cleanup"
      [] stage = "cleanup"         -> "exit"

\* restore_database is not left after its last command
AfterHangsInRestore(stage) ==
    CASE stage = "load_config"     -> "download"
      [] stage = "download"        -> "validate_backup"
      [] stage = "validate_backup" -> "ensure_db"
      [] stage = "ensure_db"       -> "restore"
      [] stage = "restore"         -> "restore"
      [] stage = "export"          -> "validate_csv"
      [] stage = "validate_csv"    -> "cleanup"
      [] stage = "cleanup"         -> "exit"

\* the export is written before the database is restored
AfterExportsBeforeRestore(stage) ==
    CASE stage = "load_config"     -> "download"
      [] stage = "download"        -> "validate_backup"
      [] stage = "validate_backup" -> "ensure_db"
      [] stage = "ensure_db"       -> "export"
      [] stage = "export"          -> "restore"
      [] stage = "restore"         -> "validate_csv"
      [] stage = "validate_csv"    -> "cleanup"
      [] stage = "cleanup"         -> "exit"

\* the export follows the probe, without the restore
AfterSkipsRestore(stage) ==
    CASE stage = "load_config"     -> "download"
      [] stage = "download"        -> "validate_backup"
      [] stage = "validate_backup" -> "ensure_db"
      [] stage = "ensure_db"       -> "export"
      [] stage = "restore"         -> "export"
      [] stage = "export"          -> "validate_csv"
      [] stage = "validate_csv"    -> "cleanup"
      [] stage = "cleanup"         -> "exit"

\* sync.py:26-73: the statement that follows a stage that returned
After(stage) ==
    CASE stage = "load_config"     -> "download"
      [] stage = "download"        -> "validate_backup"
      [] stage = "validate_backup" -> "ensure_db"
      [] stage = "ensure_db"       -> "restore"
      [] stage = "restore"         -> "export"
      [] stage = "export"          -> "validate_csv"
      [] stage = "validate_csv"    -> "cleanup"
      [] stage = "cleanup"         -> "exit"

\* exceptions.py:6-28: the classes derived from TelegramBotError
TelegramBotErrors ==
    {"TelegramBotError", "DropboxError", "DatabaseError", "ValidationError",
     "ConfigurationError"}

\* the second except clause returns 0
ExitStatusSwallowsUnexpected(e) ==
    IF e = None THEN 0 ELSE IF e \in TelegramBotErrors THEN 1 ELSE 0

\* sync.py:73-80: return 0 at the end of the try block, return 1 in both
\* except clauses
ExitStatus(e) ==
    IF e = None THEN 0
    ELSE IF e \in TelegramBotErrors THEN 1
    ELSE 1

\* the returned value is not tested
GateIgnored(result) == TRUE

\* sync.py:45-46  if not validator.validate_backup_file(..): raise
BackupGate(result) == result

\* sync.py:50-51  if not extractor.ensure_database_running(): raise
ProbeGate(result) == result

\* sync.py:53-54  if not extractor.restore_database(..): raise
RestoreGate(result) == result

\* sync.py:65-66  if not is_valid: raise
CsvGate(result) == result

\* an exception leaves the try block: sync.py:75-80
Raise(p, e, events) ==
    /\ pc' = [pc EXCEPT ![p] = "exit"]
    /\ exc' = [exc EXCEPT ![p] = e]
    /\ rc' = [rc EXCEPT ![p] = <<ExitStatus(e)>>]
    /\ trace' = [trace EXCEPT ![p] = @ \o events]
    /\ failedIn' = IF failedIn.kept
                   THEN [failedIn EXCEPT !.at = @ \cup {pc[p]}]
                   ELSE failedIn

\* a stage returned and main() goes on
Advance(p, stage, events) ==
    /\ pc' = [pc EXCEPT ![p] = After(stage)]
    /\ trace' = [trace EXCEPT ![p] = @ \o events]
    /\ UNCHANGED <<exc, rc, failedIn>>

\* the return statement at the end of the try block: sync.py:72-73
Return(p, events) ==
    /\ pc' = [pc EXCEPT ![p] = "exit"]
    /\ rc' = [rc EXCEPT ![p] = <<ExitStatus(None)>>]
    /\ trace' = [trace EXCEPT ![p] = @ \o events]
    /\ UNCHANGED <<exc, failedIn>>

Stamp(p) == timestamp[p][1]

\* --------------------------------------------------------------- actions
\* a scheduler starts main() in process slot p, at most limit times
StartWithin(p, limit) ==
    /\ pc[p] \in {"idle", "exit"}
    /\ runs < limit
    /\ runs' = runs + 1
    /\ pc' = [pc EXCEPT ![p] = "load_config"]
    /\ timestamp' = [timestamp EXCEPT ![p] = <<>>]
    /\ trace' = [trace EXCEPT ![p] = <<>>]
    /\ exc' = [exc EXCEPT ![p] = None]
    /\ rc' = [rc EXCEPT ![p] = <<>>]
    /\ phase' = [phase EXCEPT ![p] = 0]
    /\ db0' = [db0 EXCEPT ![p] = db]
    /\ exports0' = [exports0 EXCEPT ![p] = exports]
    /\ overlap' = (overlap \/ \E q \in Procs \ {p} : pc[q] \notin {"idle", "exit"})
    /\ UNCHANGED <<cfg, db, backups, exports, minute, wclock, call, direct,
                   passed, bot, failedIn>>

Start(p) == StartWithin(p, MaxRuns)

\* sync.py:26-33  load_config() raises ValueError on a non-numeric DB_PORT,
\* MAX_CSV_FILES or SEARCH_RESULTS_LIMIT (config.py:84,96,97) and nothing else
LoadConfig(p) ==
    /\ pc[p] = "load_config"
    /\ IF cfg.ints_ok
       THEN Advance(p, "load_config", <<>>)
       ELSE Raise(p, "ValueError", <<>>)
    /\ UNCHANGED <<timestamp, phase, db0, exports0, runs, cfg, db, backups, exports,
                   minute, wclock, call, direct,
                   passed, bot, overlap>>

\* sync.py:36-41 and downloader.py:92-138.  now: the minute datetime.now()
\* reads, not before the last one read; response, failing, size: what the
\* remote store answers
Download(p) ==
    /\ pc[p] = "download"
    /\ \E now \in minute..LastMinute, response \in PipelineResponses,
          failing \in 0..Len(DownloadRequests), size \in 0..1 :
         LET r == download_latest(response, failing, size) IN
           /\ minute' = now
           /\ timestamp' = [timestamp EXCEPT ![p] = <<now>>]
           /\ ~cfg.creds => failing = 1
           /\ r.raised # None => size = 0
           /\ failing \in 1..2 => response = <<>>
           /\ IF r.saved # <<>>
              THEN /\ backups' = [backups EXCEPT ![now] = BackupFile(r.saved[1].size, wclock)]
                   /\ wclock' = wclock + 1
              ELSE UNCHANGED <<backups, wclock>>
           /\ IF r.raised # None
              THEN Raise(p, r.raised,
                         <<Step(1)>> \o r.events
                           \o (IF r.saved # <<>> THEN <<Ev("write_backup", now)>> ELSE <<>>))
              ELSE Advance(p, "download",
                           <<Step(1)>> \o r.events
                             \o <<Ev("write_backup", now), Ok(1)>>)
    /\ UNCHANGED <<phase, db0, exports0, runs, cfg, db, exports, call, direct,
            passed, bot, overlap>>

\* sync.py:44-46 and validator.py:19-41
ValidateBackup(p) ==
    /\ pc[p] = "validate_backup"
    /\ LET r == validate_backup_file(backups[Stamp(p)]) IN
         IF r # "ok"
         THEN Raise(p, r, <<Step(2)>>)
         ELSE IF BackupGate(TRUE)
         THEN Advance(p, "validate_backup", <<Step(2), Ok(2)>>)
         ELSE Raise(p, "TelegramBotError", <<Step(2)>>)
    /\ UNCHANGED <<timestamp, phase, db0, exports0, runs, cfg, db, backups, exports,
                   minute, wclock, call, direct,
                   passed, bot, overlap>>

\* extractor.py:29-50  psycopg2.connect to the target database: fails when
\* the server is unreachable and when the database does not exist
ensure_database_running(d, up) == up /\ d.exists

\* sync.py:49-51
EnsureDb(p) ==
    /\ pc[p] = "ensure_db"
    /\ \E up \in BOOLEAN :
         LET running == ensure_database_running(db, up) IN
           IF ProbeGate(running)
           THEN /\ Advance(p, "ensure_db",
                           <<Step(3), Ev("probe", IF running THEN 1 ELSE 0)>>)
                /\ phase' = [phase EXCEPT ![p] = 1]
           ELSE /\ Raise(p, "TelegramBotError",
                         <<Step(3), Ev("probe", IF running THEN 1 ELSE 0)>>)
                /\ UNCHANGED phase
    /\ UNCHANGED <<timestamp, db0, exports0, runs, cfg, db, backups, exports, minute,
                   wclock, call, direct,
                   passed, bot, overlap>>

\* extractor.py:93-110  one iteration of the loop over commands; the last
\* one is followed by `return True` and by sync.py:53-54
RestoreCommand(p) ==
    /\ pc[p] = "restore"
    /\ phase[p] \in DOMAIN CommandNames
    /\ \E up \in BOOLEAN, archive \in Archives :
         LET i == phase[p]
             result == RunCommand(i, db, up, backups[Stamp(p)], archive)
             ran == <<Ran(CommandNames[i], result)>>
             warned == IF result.returncode # 0 /\ Accepted(result)
                       THEN <<Ev("warning", i)>> ELSE <<>>
         IN
           /\ i < Len(CommandNames) => archive = NoArchive
           /\ db' = result.db
           /\ IF ~Accepted(result)
              THEN /\ Raise(p, "DatabaseError", ran)
                   /\ UNCHANGED phase
              ELSE IF i < Len(CommandNames)
              THEN /\ phase' = [phase EXCEPT ![p] = i + 1]
                   /\ trace' = [trace EXCEPT ![p] = @ \o ran \o warned]
                   /\ UNCHANGED <<pc, exc, rc, failedIn>>
              ELSE IF RestoreGate(TRUE)
              THEN /\ phase' = [phase EXCEPT ![p] = i + 1]
                   /\ Advance(p, "restore", ran \o warned \o <<Ok(3)>>)
              ELSE /\ phase' = [phase EXCEPT ![p] = i + 1]
                   /\ Raise(p, "TelegramBotError", ran \o warned)
    /\ UNCHANGED <<timestamp, db0, exports0, runs, cfg, backups, exports, minute,
                   wclock, call, direct,
                   passed, bot, overlap>>

\* extractor.py:154-156  str(e) of the exception psycopg2.connect or
\* pd.read_sql_query raises, as logged; <<>> when the query returns
QueryError(d, up) ==
    IF ~up THEN <<"connection failed">>
    ELSE IF ~d.exists THEN <<"FATAL:", "database does not exist">>
    ELSE IF ~d.tables THEN <<"ERROR:", "relation does not exist">>
    ELSE <<>>

\* sync.py:57-60 and extractor.py:112-157: the query needs the server, the
\* database and the three relations; every failure becomes DatabaseError
Export(p) ==
    /\ pc[p] = "export"
    /\ \E up \in BOOLEAN :
         IF QueryError(db, up) = <<>>
         THEN /\ exports' = [exports EXCEPT ![Stamp(p)] =
                               CsvFile(QueryColumns, db.rows, db.nulls, wclock)]
              /\ wclock' = wclock + 1
              /\ Advance(p, "export",
                         <<Step(4), Ev("query", 1), Ev("write_csv", Stamp(p)), Ok(4)>>)
         ELSE /\ Raise(p, "DatabaseError",
                       <<Step(4), [Ev("query", 0) EXCEPT !.err = QueryError(db, up)]>>)
              /\ UNCHANGED <<exports, wclock>>
    /\ UNCHANGED <<timestamp, phase, db0, exports0, runs, cfg, db, backups, minute,
                   call, direct,
                   passed, bot, overlap>>

\* sync.py:63-66 and validator.py:43-81
ValidateCsv(p) ==
    /\ pc[p] = "validate_csv"
    /\ LET v == validate_csv(exports[Stamp(p)]) IN
         /\ passed' = IF v.valid
                       THEN passed \cup {<<Stamp(p), exports[Stamp(p)].mtime>>}
                       ELSE passed
         /\ IF CsvGate(v.valid)
            THEN Advance(p, "validate_csv",
                         <<Step(5), Ev("validate_csv", IF v.valid THEN 1 ELSE 0), Ok(5)>>)
            ELSE Raise(p, "TelegramBotError",
                       <<Step(5), Ev("validate_csv", IF v.valid THEN 1 ELSE 0)>>)
    /\ UNCHANGED <<timestamp, phase, db0, exports0, runs, cfg, db, backups, exports,
                   minute, wclock, call, direct, bot, overlap>>

\* sync.py:69-73 and extractor.py:171-189  cleanup_old_files() with the
\* default argument.  done: how many unlink calls succeed; a failing unlink
\* raises OSError out of the loop
Cleanup(p) ==
    /\ pc[p] = "cleanup"
    /\ \E csv_files \in SortedByMtimeDesc(exports) :
         LET old == ToRemove(csv_files, KeepCount(<<>>, cfg.max_csv_files)) IN
           \E done \in 0..Len(old) :
             /\ exports' = Cleaned(exports, <<>>, cfg.max_csv_files, csv_files, done)
             /\ call' = [arg |-> <<>>, before |-> exports,
                         removed |-> Present(exports) \ Present(exports'),
                         returned |-> done = Len(old), again |-> FALSE,
                         pruned |-> FALSE]
             /\ IF done = Len(old)
                THEN Return(p, <<Step(6)>> \o UnlinkEvents(old) \o <<Ok(6)>>)
                ELSE Raise(p, "OSError",
                           <<Step(6)>> \o UnlinkEvents(SubSeq(old, 1, done)))
    /\ UNCHANGED <<timestamp, phase, db0, exports0, runs, cfg, db, backups,
                   minute, wclock, direct,
                   passed, bot, overlap>>

\* ------------------------------------------------------- initial states
\* the exports directory before the first run: what earlier runs left, each
\* file named after the minute of its run and modified in that order, and a
\* file that is not an export
InitialExports ==
    { [n \in FileNames |->
          IF n = Other THEN OtherFile
          ELSE IF n <= count THEN CsvFile(QueryColumns, MaxRows, FALSE, n)
          ELSE NoFile] :
        count \in 0..MaxPre }

\* bot.py:20-22  df = pd.DataFrame(), csv_path = "", csv_loaded_at = None;
\* load_csv is not running
NoBot == [csv_path |-> <<>>, df |-> NoFile, csv_loaded_at |-> <<>>,
          read_from |-> <<>>, at |-> "idle"]

NoHistory == [kept |-> FALSE, at |-> {}]

InitRest ==
    /\ passed = {}
    /\ bot = NoBot
    /\ overlap = FALSE
    /\ failedIn = NoHistory

InitProcs ==
    /\ pc = [p \in Procs |-> "idle"]
    /\ timestamp = [p \in Procs |-> <<>>]
    /\ trace = [p \in Procs |-> <<>>]
    /\ exc = [p \in Procs |-> None]
    /\ rc = [p \in Procs |-> <<>>]
    /\ phase = [p \in Procs |-> 0]
    /\ runs = 0

Init ==
    /\ InitProcs
    /\ db \in DbStates
    /\ db0 = [p \in Procs |-> db]
    /\ cfg \in [creds : BOOLEAN, ints_ok : BOOLEAN, max_csv_files : 0..MaxKeep]
    /\ backups = EmptyDir
    /\ exports \in InitialExports
    /\ exports0 = [p \in Procs |-> exports]
    /\ minute = FirstMinute
    /\ wclock = MaxPre + 1
    /\ call = NoCall
    /\ direct = NoDirect
    /\ InitRest

Run(p) ==
    \/ Start(p)
    \/ LoadConfig(p)
    \/ Download(p)
    \/ ValidateBackup(p)
    \/ EnsureDb(p)
    \/ RestoreCommand(p)
    \/ Export(p)
    \/ ValidateCsv(p)
    \/ Cleanup(p)

Next == Run("p1")

Spec == Init /\ [][Next]_vars

\* ------------------------------------- restore_database called on its own
\* extractor.restore_database(backup_file) called with the database in any
\* state and with any file, or none, at backup_file
InitRestore ==
    /\ pc = [p \in Procs |-> IF p = "p1" THEN "restore" ELSE "idle"]
    /\ timestamp = [p \in Procs |-> IF p = "p1" THEN <<FirstMinute>> ELSE <<>>]
    /\ trace = [p \in Procs |-> <<>>]
    /\ exc = [p \in Procs |-> None]
    /\ rc = [p \in Procs |-> <<>>]
    /\ phase = [p \in Procs |-> IF p = "p1" THEN 1 ELSE 0]
    /\ runs = 1
    /\ db \in DbStates
    /\ db0 = [p \in Procs |-> db]
    /\ cfg \in [creds : {TRUE}, ints_ok : {TRUE}, max_csv_files : 0..MaxKeep]
    /\ backups \in { [EmptyDir EXCEPT ![FirstMinute] = f] :
                       f \in {NoFile} \cup { BackupFile(size, MaxPre + 1) : size \in 0..1 } }
    /\ exports = EmptyDir
    /\ exports0 = [p \in Procs |-> exports]
    /\ minute = FirstMinute
    /\ wclock = MaxPre + 2
    /\ call = NoCall
    /\ direct = NoDirect
    /\ InitRest

NextRestore == RestoreCommand("p1")

SpecRestore == InitRestore /\ [][NextRestore]_vars

\* ------------------------------------------- the frontend beside the runs
\* min in place of max
GetOldestCsv(dir) ==
    { n \in Glob(dir) : \A m \in Glob(dir) : dir[n].mtime <= dir[m].mtime }

\* bot.py:26-32  get_latest_csv: max(list_of_files, key=os.path.getmtime);
\* among files of equal time the order of glob decides, so any of them
get_latest_csv(dir) ==
    { n \in Glob(dir) : \A m \in Glob(dir) : dir[m].mtime <= dir[n].mtime }

\* pd.read_csv returns a frame: the file is there and has a header line
Readable(file) == file # NoFile /\ file.cols # {}

\* bot.py:38  csv_path = get_latest_csv(..): the global is assigned, unless
\* get_latest_csv raises because there is no *.csv file
GetLatestCsv ==
    /\ bot.at = "idle"
    /\ IF Glob(exports) = {}
       THEN UNCHANGED bot
       ELSE \E n \in get_latest_csv(exports) :
              bot' = [bot EXCEPT !.csv_path = <<n>>, !.at = "read"]
    /\ UNCHANGED <<pc, timestamp, trace, exc, rc, phase, db0, exports0, runs,
                   cfg, db, backups, exports, minute, wclock, call, direct,
                   passed, overlap, failedIn>>

\* bot.py:39-40  df = pd.read_csv(csv_path) and csv_loaded_at =
\* getmtime(csv_path), taken together; read_csv raises when the file is no
\* longer there or has no columns, and load_csv is left
ReadCsv ==
    /\ bot.at = "read"
    /\ LET n == bot.csv_path[1] IN
         bot' = IF Readable(exports[n])
                THEN [bot EXCEPT !.df = exports[n],
                                 !.csv_loaded_at = <<exports[n].mtime>>,
                                 !.read_from = <<n>>,
                                 !.at = "idle"]
                ELSE [bot EXCEPT !.at = "idle"]
    /\ UNCHANGED <<pc, timestamp, trace, exc, rc, phase, db0, exports0, runs,
                   cfg, db, backups, exports, minute, wclock, call, direct,
                   passed, overlap, failedIn>>

\* bot.py:35-41  load_csv(), called at startup and by the /reload handler
\* (bot.py:98-108, 122-128), which catch what it raises
Reload == GetLatestCsv \/ ReadCsv

\* runs one after the other with a complete configuration, on a database in
\* any state, and the bot reloading at any time
InitFrontend ==
    /\ InitProcs
    /\ db \in DbStates
    /\ db0 = [p \in Procs |-> db]
    /\ cfg \in [creds : {TRUE}, ints_ok : {TRUE}, max_csv_files : {MaxKeep}]
    /\ backups = EmptyDir
    /\ exports \in InitialExports
    /\ exports0 = [p \in Procs |-> exports]
    /\ minute = FirstMinute
    /\ wclock = MaxPre + 1
    /\ call = NoCall
    /\ direct = NoDirect
    /\ InitRest

NextFrontend == Run("p1") \/ Reload

SpecFrontend == InitFrontend /\ [][NextFrontend]_vars

\* ------------------------------------------------- runs to their end
\* the statements of main() after its start
Stages(p) ==
    \/ LoadConfig(p)
    \/ Download(p)
    \/ ValidateBackup(p)
    \/ EnsureDb(p)
    \/ RestoreCommand(p)
    \/ Export(p)
    \/ ValidateCsv(p)
    \/ Cleanup(p)

\* runs one after the other in one clock minute, with a complete
\* configuration that keeps one export, on a directory that holds MaxPre
\* exports; the history of failures is kept
InitLive ==
    /\ InitProcs
    /\ db = EmptyDb
    /\ db0 = [p \in Procs |-> db]
    /\ cfg \in [creds : {TRUE}, ints_ok : {TRUE}, max_csv_files : {1}]
    /\ backups = EmptyDir
    /\ exports \in { e \in InitialExports : Cardinality(Glob(e)) = MaxPre }
    /\ exports0 = [p \in Procs |-> exports]
    /\ minute = LastMinute
    /\ wclock = MaxPre + 1
    /\ call = NoCall
    /\ direct = NoDirect
    /\ passed = {}
    /\ bot = NoBot
    /\ overlap = FALSE
    /\ failedIn = [NoHistory EXCEPT !.kept = TRUE]

NextLive == StartWithin("p1", MaxLiveRuns) \/ Stages("p1")

\* every call main() waits for returns or raises: the requests have
\* timeouts (downloader.py:47,71,118,127), the commands and the query end
\* when the server answers or the connection fails; when main() is started
\* is up to the scheduler
SpecLive == InitLive /\ [][NextLive]_vars /\ WF_vars(Stages("p1"))

\* ------------------------------------------------------ overlapping runs
\* two schedulers (cron and a manual start) on one host: nothing in main()
\* keeps a run from starting while another is in progress; the runs fall
\* in one clock minute and start on an empty export directory
InitOverlap ==
    /\ InitProcs
    /\ db = EmptyDb
    /\ db0 = [p \in Procs |-> db]
    /\ cfg \in [creds : {TRUE}, ints_ok : {TRUE}, max_csv_files : {MaxKeep}]
    /\ backups = EmptyDir
    /\ exports = [EmptyDir EXCEPT ![Other] = OtherFile]
    /\ exports0 = [p \in Procs |-> exports]
    /\ minute = LastMinute
    /\ wclock = MaxPre + 1
    /\ call = NoCall
    /\ direct = NoDirect
    /\ InitRest

NextOverlap == Run("p1") \/ Run("p2")

SpecOverlap == InitOverlap /\ [][NextOverlap]_vars

\* two runs, one per process slot, a minute apart or not, on a directory
\* that holds MaxPre exports, with any retention count
InitRace ==
    /\ InitProcs
    /\ db = EmptyDb
    /\ db0 = [p \in Procs |-> db]
    /\ cfg \in [creds : {TRUE}, ints_ok : {TRUE}, max_csv_files : 0..MaxKeep]
    /\ backups = EmptyDir
    /\ exports \in { e \in InitialExports : Cardinality(Glob(e)) = MaxPre }
    /\ exports0 = [p \in Procs |-> exports]
    /\ minute = FirstMinute
    /\ wclock = MaxPre + 1
    /\ call = NoCall
    /\ direct = NoDirect
    /\ InitRest

NextRace ==
    \E p \in Procs : StartWithin(p, Cardinality(Procs)) \/ Stages(p)

SpecRace == InitRace /\ [][NextRace]_vars

\* ------------------- list_backups and download_latest called on their own
\* a file an earlier download of the same minute left at the destination
OldBackup == BackupFile(1, MaxPre)

\* downloader.list_backups() or downloader.download_latest(destination),
\* once, with the remote folder in any state and the destination there or not
InitDownload ==
    /\ InitProcs
    /\ db = AbsentDb
    /\ db0 = [p \in Procs |-> db]
    /\ cfg \in [creds : {TRUE}, ints_ok : {TRUE}, max_csv_files : {MaxKeep}]
    /\ backups \in {EmptyDir, [EmptyDir EXCEPT ![FirstMinute] = OldBackup]}
    /\ exports = EmptyDir
    /\ exports0 = [p \in Procs |-> exports]
    /\ minute = FirstMinute
    /\ wclock = MaxPre + 1
    /\ call = NoCall
    /\ direct \in { [NoDirect EXCEPT !.input = r] : r \in Responses }
    /\ InitRest

\* downloader.py:55-90
CallListBackups ==
    /\ direct.fn = None
    /\ \E failing \in 0..2 :
         direct' = [direct EXCEPT !.fn = "list_backups",
                                  !.out = ListBackups(direct.input, failing)]
    /\ UNCHANGED <<pc, timestamp, trace, exc, rc, phase, db0, exports0, runs,
                   cfg, db, backups, exports, minute, wclock, call,
                   passed, bot, overlap, failedIn>>

\* downloader.py:92-138, with backups_dir / backup_<FirstMinute>.i5bu as
\* destination
CallDownloadLatest ==
    /\ direct.fn = None
    /\ \E failing \in 0..Len(DownloadRequests), size \in 0..1 :
         LET r == download_latest(direct.input, failing, size) IN
           /\ r.raised # None => size = 0
           /\ direct' = [direct EXCEPT !.fn = "download_latest", !.out = r]
           /\ IF r.saved # <<>>
              THEN /\ backups' = [backups EXCEPT ![FirstMinute] =
                                     BackupFile(r.saved[1].size, wclock)]
                   /\ wclock' = wclock + 1
              ELSE UNCHANGED <<backups, wclock>>
    /\ UNCHANGED <<pc, timestamp, trace, exc, rc, phase, db0, exports0, runs,
                   cfg, db, exports, minute, call,
                   passed, bot, overlap, failedIn>>

NextDownload == CallListBackups \/ CallDownloadLatest

SpecDownload == InitDownload /\ [][NextDownload]_vars

\* ------------- validate_backup_file and validate_csv called on their own
\* the columns a file may have: the required ones and one more
Columns == REQUIRED_COLUMNS \cup {"kodeitem"}

\* any tabular file: a file without columns (zero bytes) has no rows; nulls
\* need a row
AnyCsv ==
    { f \in [mtime : {MaxPre + 1}, cols : SUBSET Columns, rows : 0..MaxRows,
             nulls : BOOLEAN] :
        (f.nulls => f.rows > 0) /\ (f.cols = {} => f.rows = 0) }

\* validator.validate_backup_file(backups_dir / backup_<FirstMinute>.i5bu) or
\* validator.validate_csv(exports_dir / <FirstMinute>.csv), once, with any
\* file, or none, at either path
InitValidate ==
    /\ InitProcs
    /\ db = AbsentDb
    /\ db0 = [p \in Procs |-> db]
    /\ cfg \in [creds : {TRUE}, ints_ok : {TRUE}, max_csv_files : {MaxKeep}]
    /\ backups \in { [EmptyDir EXCEPT ![FirstMinute] = f] :
                       f \in {NoFile} \cup { BackupFile(size, MaxPre + 1) : size \in 0..1 } }
    /\ exports \in { [EmptyDir EXCEPT ![FirstMinute] = f] : f \in {NoFile} \cup AnyCsv }
    /\ exports0 = [p \in Procs |-> exports]
    /\ minute = FirstMinute
    /\ wclock = MaxPre + 2
    /\ call = NoCall
    /\ direct = [NoDirect EXCEPT !.input = <<FirstMinute>>]
    /\ InitRest

\* validator.py:19-41
CallValidateBackup ==
    /\ direct.fn = None
    /\ LET r == validate_backup_file(backups[direct.input[1]]) IN
         direct' = [direct EXCEPT
                      !.fn = "validate_backup_file",
                      !.out = IF r = "ok"
                              THEN [NoOutcome EXCEPT !.returned = <<TRUE>>]
                              ELSE [NoOutcome EXCEPT !.raised = r]]
    /\ UNCHANGED <<pc, timestamp, trace, exc, rc, phase, db0, exports0, runs,
                   cfg, db, backups, exports, minute, wclock, call,
                   passed, bot, overlap, failedIn>>

\* validator.py:43-81
CallValidateCsv ==
    /\ direct.fn = None
    /\ direct' = [direct EXCEPT
                    !.fn = "validate_csv",
                    !.out = [NoOutcome EXCEPT
                               !.returned = <<validate_csv(exports[direct.input[1]])>>]]
    /\ UNCHANGED <<pc, timestamp, trace, exc, rc, phase, db0, exports0, runs,
                   cfg, db, backups, exports, minute, wclock, call,
                   passed, bot, overlap, failedIn>>

NextValidate == CallValidateBackup \/ CallValidateCsv

SpecValidate == InitValidate /\ [][NextValidate]_vars

\* ------------------------------------ cleanup_old_files called on its own
CleanupNames == 1..MaxFiles

\* any export directory of up to MaxFiles files (named 1, 2, ..), each
\* modified at any time, equal times included
AnyExports ==
    UNION { { [n \in FileNames |->
                  IF n = Other THEN OtherFile
                  ELSE IF n \in 1..count
                  THEN CsvFile(QueryColumns, MaxRows, FALSE, mtimes[n])
                  ELSE NoFile] :
                mtimes \in [1..count -> 1..MaxFiles] } :
            count \in 0..MaxFiles }

KeepArgs == {<<>>} \cup { Some(k) : k \in 0..MaxKeep }

InitCleanup ==
    /\ InitProcs
    /\ db = AbsentDb
    /\ db0 = [p \in Procs |-> db]
    /\ cfg \in [creds : {TRUE}, ints_ok : {TRUE}, max_csv_files : {1, MaxKeep}]
    /\ backups = EmptyDir
    /\ exports \in AnyExports
    /\ exports0 = [p \in Procs |-> exports]
    /\ minute = FirstMinute
    /\ wclock = MaxFiles + 1
    /\ call = NoCall
    /\ direct = NoDirect
    /\ InitRest

\* extractor.cleanup_old_files(keep_count), extractor.py:171-189
CallCleanup ==
    /\ \E csv_files \in SortedByMtimeDesc(exports), keep_count \in KeepArgs :
         LET old == ToRemove(csv_files, KeepCount(keep_count, cfg.max_csv_files)) IN
           \E done \in 0..Len(old) :
             /\ exports' = Cleaned(exports, keep_count, cfg.max_csv_files, csv_files, done)
             /\ call' = [arg |-> keep_count, before |-> exports,
                         removed |-> Present(exports) \ Present(exports'),
                         returned |-> done = Len(old),
                         again |-> call.returned /\ call.arg = keep_count,
                         pruned |-> call.removed # {}]
    /\ UNCHANGED <<pc, timestamp, trace, exc, rc, phase, db0, exports0, runs,
                   cfg, db, backups, minute, wclock, direct,
                   passed, bot, overlap, failedIn>>

\* extractor.export_to_csv(output_path) writes an export file under a new
\* name, once (extractor.py:148-149); the next cleanup call no longer follows
\* a cleanup
WriteExport ==
    /\ wclock = MaxFiles + 1
    /\ \E n \in CleanupNames :
         /\ exports[n] = NoFile
         /\ \A m \in CleanupNames : m < n => exports[m] # NoFile
         /\ exports' = [exports EXCEPT ![n] = CsvFile(QueryColumns, MaxRows, FALSE, wclock)]
    /\ wclock' = wclock + 1
    /\ call' = [call EXCEPT !.returned = FALSE, !.again = FALSE, !.pruned = FALSE]
    /\ UNCHANGED <<pc, timestamp, trace, exc, rc, phase, db0, exports0, runs,
                   cfg, db, backups, minute, direct,
                   passed, bot, overlap, failedIn>>

NextCleanup == CallCleanup \/ WriteExport

SpecCleanup == InitCleanup /\ [][NextCleanup]_vars

\* ------------------------------------------------------ reading a trace
Has(t, ev) == \E i \in DOMAIN t : t[i] = ev

IsPrefix(a, b) == Len(a) <= Len(b) /\ \A i \in DOMAIN a : a[i] = b[i]

IsStageEvent(ev) == ev.e \in {"step", "ok"}

Commands == Range(CommandNames)

IsCommand(ev) == ev.e \in Commands

\* Download, ArtifactValidate, Restore, Export, ExportValidate, Cleanup
StageCount == Len(<<"Download", "ArtifactValidate", "Restore", "Export",
                    "ExportValidate", "Cleanup">>)

\* every stage started and returned, in the fixed order
StageEvents ==
    [i \in 1..(2 * StageCount) |->
        IF i % 2 = 1 THEN Step((i + 1) \div 2) ELSE Ok(i \div 2)]

\* the stage an event belongs to
StageOf(ev) ==
    CASE ev.e \in {"step", "ok"} -> ev.x
      [] ev.e \in {"token", "list_folder", "found", "get_temporary_link",
                   "get", "write_backup"} -> 1
      [] ev.e \in {"probe", "dropdb", "createdb", "pg_restore", "warning"} -> 3
      [] ev.e \in {"query", "write_csv"} -> 4
      [] ev.e = "validate_csv" -> 5
      [] ev.e = "unlink" -> 6

\* the last stage the run started (0: none)
LastStep(t) ==
    LET started == {t[i].x : i \in {j \in DOMAIN t : t[j].e = "step"}} IN
    IF started = {} THEN 0
    ELSE CHOOSE n \in started : \A m \in started : m <= n

Failed(p) == exc[p] # None

Succeeded(p) == pc[p] = "exit" /\ exc[p] = None

\* a command's diagnostic output contains "errors ignored on restore"
MarkerIn(ev) == Contains(ev.err, Marker)

\* a stage reported failure: a false probe or validation, a failed query, a
\* command with a non-zero status and no benign marker
ReportsFailure(ev) ==
    \/ ev.e \in {"probe", "validate_csv", "query"} /\ ev.x = 0
    \/ IsCommand(ev) /\ ev.x # 0 /\ ~MarkerIn(ev)

\* ----------------------------------------------------------------- claims

\* C1: in every run the stages start in the order Download, ArtifactValidate,
\* Restore, Export, ExportValidate, Cleanup, each only after the one before
\* it has returned, none skipped; within Restore the commands run only after
\* a successful readiness probe.
C1_StageOrder ==
    \A p \in Procs :
        /\ IsPrefix(SelectSeq(trace[p], IsStageEvent), StageEvents)
        /\ \A i \in DOMAIN trace[p] :
             IsCommand(trace[p][i]) =>
                 \E j \in 1..(i - 1) : trace[p][j] = Ev("probe", 1)

C1_Witness == \E p \in Procs : Has(trace[p], Ok(StageCount))

\* C2: fail-fast without retry: a stage that reports failure is the last thing
\* the run does and the run is Failed; in a Failed run the last stage started
\* has not returned and nothing of a later stage has happened; nothing is
\* done twice in a run.
C2_FailFast ==
    \A p \in Procs :
      LET t == trace[p]
          last == LastStep(trace[p])
      IN
        /\ \A i \in DOMAIN t :
             ReportsFailure(t[i]) => i = Len(t) /\ Failed(p) /\ pc[p] = "exit"
        /\ Failed(p) =>
             /\ pc[p] = "exit"
             /\ ~Has(t, Ok(last))
             /\ \A i \in DOMAIN t : StageOf(t[i]) <= last
        /\ Cardinality({ <<t[i].e, t[i].x>> : i \in DOMAIN t }) = Len(t)

C2_Witness ==
    \E p \in Procs :
        /\ exc[p] = "DatabaseError"
        /\ \E i \in DOMAIN trace[p] : trace[p][i].e = "createdb" /\ trace[p][i].x # 0

\* C3: main() returns 0 only if all six stages returned in that run; every
\* failure, an unexpected exception included, gives a non-zero status.
C3_ExitStatus ==
    \A p \in Procs :
        /\ pc[p] = "exit" <=> rc[p] # <<>>
        /\ rc[p] = <<0>> =>
             /\ exc[p] = None
             /\ \A n \in 1..StageCount : Has(trace[p], Ok(n))
        /\ Failed(p) => rc[p] # <<>> /\ rc[p][1] # 0

C3_Witness == \E p \in Procs : rc[p] = <<0>> /\ Has(trace[p], Step(StageCount))

\* C4: a restore command with a non-zero status whose output contains
\* "errors ignored on restore" is logged as a warning and the run goes on (to
\* the next command, after the last one to the export stage); any other
\* non-zero status raises DatabaseError and is the last thing the run does.
C4_RestoreTolerance ==
    \A p \in Procs :
      LET t == trace[p] IN
        \A i \in DOMAIN t :
          (IsCommand(t[i]) /\ t[i].x # 0) =>
            IF MarkerIn(t[i])
            THEN /\ i < Len(t)
                 /\ t[i + 1].e = "warning"
                 /\ IF t[i].e = CommandNames[Len(CommandNames)]
                    THEN Has(t, Ok(3)) /\ (pc[p] = "export" \/ Has(t, Step(4)))
                    ELSE pc[p] = "restore" \/ (\E j \in DOMAIN t : j > i /\ IsCommand(t[j]))
            ELSE /\ i = Len(t)
                 /\ exc[p] = "DatabaseError"
                 /\ pc[p] = "exit"

C4_Witness ==
    \E p \in Procs :
        /\ Has(trace[p], Step(4))
        /\ \E i \in DOMAIN trace[p] :
             /\ trace[p][i].e = "pg_restore"
             /\ trace[p][i].x # 0
             /\ MarkerIn(trace[p][i])

\* C5: when the readiness probe returns false the run ends Failed without
\* running any of drop, create, restore, and the database is as it was before
\* the run.
C5_ProbeFalseAborts ==
    \A p \in Procs :
        Has(trace[p], Ev("probe", 0)) =>
            /\ pc[p] = "exit"
            /\ exc[p] = "TelegramBotError"
            /\ \A i \in DOMAIN trace[p] : ~IsCommand(trace[p][i])
            /\ db = db0[p]

C5_Witness == \E p \in Procs : Has(trace[p], Ev("probe", 0)) /\ pc[p] = "exit"

\* C6: restore_database runs dropdb, createdb, pg_restore in this order, each
\* at most once and only after every earlier command was accepted (zero
\* status or benign warning); dropdb fails only when the server cannot be
\* reached, never because the database is absent; it returns true only after
\* all three commands were accepted.
C6_RestorePhases ==
    \A p \in Procs :
      LET cmds == SelectSeq(trace[p], IsCommand) IN
        /\ Len(cmds) <= Len(CommandNames)
        /\ \A i \in DOMAIN cmds :
             /\ cmds[i].e = CommandNames[i]
             /\ \A j \in 1..(i - 1) : cmds[j].x = 0 \/ MarkerIn(cmds[j])
        /\ \A i \in DOMAIN cmds :
             (cmds[i].e = "dropdb" /\ cmds[i].x # 0) =>
                 Contains(cmds[i].err, "connection failed")
        /\ Has(trace[p], Ok(3)) =>
             /\ Len(cmds) = Len(CommandNames)
             /\ \A i \in DOMAIN cmds : cmds[i].x = 0 \/ MarkerIn(cmds[i])

C6_Witness ==
    \E p \in Procs :
        /\ ~db0[p].exists
        /\ Has(trace[p], Ok(3))
        /\ \E i \in DOMAIN trace[p] : trace[p][i].e = "dropdb" /\ trace[p][i].x = 0

\* C7: when validate_csv returns false for the export the run has written,
\* the run ends Failed before cleanup: no file of the export directory is
\* deleted in that run.
C7_InvalidExportAborts ==
    \A p \in Procs :
        Has(trace[p], Ev("validate_csv", 0)) =>
            /\ pc[p] = "exit"
            /\ exc[p] = "TelegramBotError"
            /\ ~Has(trace[p], Step(StageCount))
            /\ \A i \in DOMAIN trace[p] : trace[p][i].e # "unlink"
            /\ Present(exports0[p]) \subseteq Present(exports)

C7_Witness ==
    \E p \in Procs :
        /\ Has(trace[p], Ev("validate_csv", 0))
        /\ Has(trace[p], Ev("write_csv", Stamp(p)))
        /\ Present(exports0[p]) # {}

DistinctMtimes(dir) ==
    \A a, b \in Glob(dir) : a # b => dir[a].mtime # dir[b].mtime

Min(a, b) == IF a <= b THEN a ELSE b

\* the files left are at least as recent as every file the call unlinked
KeptMostRecent ==
    \A k \in Glob(exports), r \in call.removed :
        exports[k].mtime >= call.before[r].mtime

\* C8: for N export files with distinct modification times and keepCount
\* k < N, after cleanup(k) exactly the k most recently modified files remain.
C8_ExactlyKRemain ==
    (/\ call.returned
     /\ call.arg # <<>>
     /\ DistinctMtimes(call.before)
     /\ call.arg[1] < Cardinality(Glob(call.before)))
    => /\ Cardinality(Glob(exports)) = call.arg[1]
       /\ KeptMostRecent

\* C8, for k >= 1 only
C8_PositiveKeep ==
    (/\ call.returned
     /\ call.arg # <<>>
     /\ call.arg[1] >= 1
     /\ DistinctMtimes(call.before)
     /\ call.arg[1] < Cardinality(Glob(call.before)))
    => /\ Cardinality(Glob(exports)) = call.arg[1]
       /\ KeptMostRecent

\* C9: after the cleanup pass of a run, and so in the final state of every
\* Succeeded run, the export directory holds at most max_csv_files files, and
\* they are the max_csv_files most recently modified ones (all files when
\* there were fewer).
C9_RetentionBound ==
    \A p \in Procs :
        Succeeded(p) =>
            /\ call.returned /\ call.arg = <<>>
            /\ Cardinality(Glob(exports)) <= cfg.max_csv_files
            /\ Cardinality(Glob(exports)) =
                   Min(cfg.max_csv_files, Cardinality(Glob(call.before)))
            /\ KeptMostRecent

C9_Witness ==
    \E p \in Procs :
        /\ Succeeded(p)
        /\ call.removed # {}
        /\ Glob(exports) # {}

\* C10: cleanup(k) called again right after cleanup(k) returned, no export
\* file written in between, unlinks nothing and leaves the directory as it
\* found it.
C10_Idempotent ==
    call.again => call.removed = {} /\ exports = call.before

C10_Witness == call.again /\ call.pruned /\ call.returned

\* a step in which process p runs cleanup_old_files
CleanupStep(p) == pc[p] = "cleanup" /\ pc'[p] # "cleanup"

\* C11: a cleanup call unlinks export files of the export directory only:
\* it leaves every backup artifact, every other file of the export directory
\* and the database as they were; and no step of a run removes a file of the
\* backups directory.
C11_CleanupFrame ==
    [][/\ \A n \in Present(backups) : backups'[n] # NoFile
       /\ \A p \in Procs :
            CleanupStep(p) =>
                /\ backups' = backups
                /\ db' = db
                /\ \A n \in FileNames :
                     exports'[n] # exports[n] => n \in Names /\ exports'[n] = NoFile]_vars

C11_Witness ==
    \E p \in Procs :
        /\ Succeeded(p)
        /\ call.removed # {}
        /\ Present(backups) # {}
        /\ exports[Other] = OtherFile


\* the positions of a response whose entry is a backup artifact
BackupEntries(response) == { i \in DOMAIN response : response[i].ext = ".i5bu" }

DistinctTimestamps(response) ==
    \A i, j \in BackupEntries(response) :
        i # j => response[i].modified # response[j].modified

\* C12: for a listing response whose backup artifacts have distinct
\* timestamps, list_backups returns exactly the entries named *.i5bu, newest
\* first, and download_latest requests and saves the one with the largest
\* timestamp.
C12_LatestFirst ==
    LET r == direct.input
        out == direct.out
    IN
      (direct.fn # None /\ out.raised = None /\ DistinctTimestamps(r)) =>
        /\ direct.fn = "list_backups" =>
             /\ Len(out.returned) = Cardinality(BackupEntries(r))
             /\ \A i \in DOMAIN out.returned :
                  /\ out.returned[i].path \in BackupEntries(r)
                  /\ out.returned[i].modified = r[out.returned[i].path].modified
             /\ \A i, j \in DOMAIN out.returned :
                  i < j => out.returned[i].modified > out.returned[j].modified
        /\ direct.fn = "download_latest" =>
             /\ out.requested # <<>> /\ out.saved # <<>>
             /\ out.requested[1] \in BackupEntries(r)
             /\ \A i \in BackupEntries(r) :
                  r[i].modified <= r[out.requested[1]].modified
             /\ out.saved[1].path = out.requested[1]
             /\ backups[FirstMinute] # NoFile
             /\ backups[FirstMinute].size = out.saved[1].size

\* the newest artifact is neither the first nor the last entry and an entry
\* that is no artifact is newer still
C12_Witness ==
    /\ direct.fn = "download_latest"
    /\ direct.out.raised = None
    /\ DistinctTimestamps(direct.input)
    /\ Cardinality(BackupEntries(direct.input)) >= 2
    /\ direct.out.requested[1] # 1
    /\ \E i \in DOMAIN direct.input :
         /\ i \notin BackupEntries(direct.input)
         /\ direct.input[i].modified > direct.input[direct.out.requested[1]].modified

\* C13: when the folder holds no entry named *.i5bu, list_backups returns
\* (it logs "Found 0 backup files") and download_latest raises DropboxError
\* at once: the run ends Failed in the download stage, status 1, having sent
\* the token and list_folder requests and nothing else.
C13_NoBackups ==
    \A p \in Procs :
        Has(trace[p], Found(<<>>)) =>
            /\ pc[p] = "exit"
            /\ exc[p] = "DropboxError"
            /\ rc[p] = <<1>>
            /\ trace[p] = <<Step(1)>> \o SubSeq(DownloadRequests, 1, 2)
                            \o <<Found(<<>>)>>

C13_Witness ==
    \E p \in Procs : Has(trace[p], Found(<<>>)) /\ LastStep(trace[p]) = 1

\* C14: validate_backup_file returns True exactly when the path exists and
\* the file is not empty, raises ValidationError when the path does not exist
\* or the file has zero bytes, and never returns False.
C14_ValidateArtifact ==
    direct.fn = "validate_backup_file" =>
        LET file == backups[direct.input[1]]
            good == file # NoFile /\ file.size > 0
        IN
          /\ good <=> direct.out.raised = None /\ direct.out.returned = <<TRUE>>
          /\ ~good <=> direct.out.raised = "ValidationError" /\ direct.out.returned = <<>>
          /\ direct.out.returned # <<FALSE>>

C14_Witness ==
    /\ direct.fn = "validate_backup_file"
    /\ backups[direct.input[1]] # NoFile
    /\ backups[direct.input[1]].size = 0
    /\ direct.out.raised = "ValidationError"

\* the file has a header line, so pd.read_csv returns a frame
Parsed(file) == file # NoFile /\ file.cols # {}

\* C15: for every export file validate_csv returns (False, "Missing columns
\* ..") naming the missing ones if one of the five required columns is
\* absent, otherwise (False, "CSV file is empty") if there is no data row,
\* otherwise (True, None), null cells in required columns included (they are
\* logged as a warning only).
C15_ValidateExport ==
    (direct.fn = "validate_csv" /\ Parsed(exports[direct.input[1]])) =>
        LET file == exports[direct.input[1]]
            v == direct.out.returned[1]
            absent == { c \in {"namaitem", "konversi", "satuan", "hargapokok",
                               "hargajual"} : c \notin file.cols }
        IN
          /\ direct.out.raised = None
          /\ IF absent # {}
             THEN ~v.valid /\ v.error = "Missing columns" /\ v.missing = absent
             ELSE IF file.rows = 0
             THEN ~v.valid /\ v.error = "CSV file is empty"
             ELSE v.valid /\ v.error = None /\ (v.warned <=> file.nulls)

C15_Witness ==
    /\ direct.fn = "validate_csv"
    /\ Parsed(exports[direct.input[1]])
    /\ exports[direct.input[1]].nulls
    /\ direct.out.returned[1].valid
    /\ direct.out.returned[1].warned

\* C16: a file a run has written is never modified afterwards: an export
\* keeps its content until a cleanup call unlinks it, a backup artifact keeps
\* its content for good; no later run writes to an existing file.
C16_WriteOnce ==
    [][\A n \in FileNames :
         /\ exports[n] # NoFile =>
              \/ exports'[n] = exports[n]
              \/ exports'[n] = NoFile /\ \E p \in Procs : CleanupStep(p)
         /\ backups[n] # NoFile => backups'[n] = backups[n]]_vars

FailedValidation(p) == Has(trace[p], Ev("validate_csv", 0))

\* C18: an export that fails validation stays visible: the file written
\* before validation is still in the export directory when the run has
\* failed, with the content validate_csv rejected, and it is the file
\* get_latest_csv selects; so the bot can load it.
C18_FailedExportVisible ==
    \A p \in Procs :
        FailedValidation(p) =>
            /\ Failed(p)
            /\ exports[Stamp(p)] # NoFile
            /\ ~validate_csv(exports[Stamp(p)]).valid
            /\ get_latest_csv(exports) = {Stamp(p)}

\* the bot has loaded the export that failed validation
C18_Witness ==
    \E p \in Procs :
        /\ FailedValidation(p)
        /\ bot.csv_path = <<Stamp(p)>>
        /\ bot.df = exports[Stamp(p)]
        /\ ~validate_csv(bot.df).valid

\* a required setting is missing or invalid
BadSettings == ~cfg.creds \/ ~cfg.ints_ok

\* C19: with a required setting missing or invalid, the run fails with
\* ConfigurationError before any stage runs: it ends with that exception and
\* has logged no step and made no request, command or write.
C19_ConfigurationError ==
    \A p \in Procs :
        BadSettings /\ pc[p] = "exit" =>
            /\ exc[p] = "ConfigurationError"
            /\ trace[p] = <<>>

\* the command of this event did not make restore_database raise
AcceptedCommand(ev) == IsCommand(ev) /\ (ev.x = 0 \/ MarkerIn(ev))

\* the query found no database to connect to
DatabaseGone(ev) ==
    ev.e = "query" /\ ev.err = <<"FATAL:", "database does not exist">>

\* the events before position i hold an accepted dropdb, createdb and
\* pg_restore, in this order
OwnRestoreBefore(t, i) ==
    \E j1, j2, j3 \in 1..(i - 1) :
        /\ j1 < j2 /\ j2 < j3
        /\ t[j1].e = CommandNames[1] /\ AcceptedCommand(t[j1])
        /\ t[j2].e = CommandNames[2] /\ AcceptedCommand(t[j2])
        /\ t[j3].e = CommandNames[3] /\ AcceptedCommand(t[j3])

\* q has dropped the database and has not yet finished restoring it
MidRestore(q) == pc[q] = "restore" /\ phase[q] \in 2..Len(CommandNames)

\* C20: as long as no run has started while another was in progress, every
\* export query comes after the same run's accepted dropdb, createdb and
\* pg_restore, the run about to query finds the database its restore left,
\* and no query finds the database dropped.  (With overlapping runs the
\* state of C20_Witness is reachable.)
C20_NoOverlapOrder ==
    ~overlap =>
        \A p \in Procs :
            /\ pc[p] = "export" =>
                   /\ db.exists
                   /\ \A q \in Procs \ {p} : ~MidRestore(q)
            /\ \A i \in DOMAIN trace[p] :
                   trace[p][i].e = "query" =>
                       /\ OwnRestoreBefore(trace[p], i)
                       /\ ~DatabaseGone(trace[p][i])

\* each process has started once; the restore of p was accepted, and its
\* query found the database dropped by q, which is still between its dropdb
\* and its createdb
C20_Witness ==
    \E p \in Procs : \E q \in Procs \ {p} :
        /\ overlap
        /\ runs = Cardinality(Procs)
        /\ Has(trace[p], Ok(3))
        /\ OwnRestoreBefore(trace[p], Len(trace[p]))
        /\ DatabaseGone(trace[p][Len(trace[p])])
        /\ MidRestore(q)
        /\ ~db.exists

\* a request to the remote store API, sent with a bearer token
IsApiRequest(ev) == ev.e \in {"list_folder", "get_temporary_link"}

IsRefresh(ev) == ev.e = "token"

\* C21: in list_backups and download_latest every API request carries the
\* token of a refresh made in the same operation, right before it and after
\* any earlier API request; no two refreshes give the same token and no
\* token is sent twice; a download_latest that returns has made exactly two
\* refreshes; a refresh is followed by its API request unless it failed, and
\* then it is the last request of the operation, which raises DropboxError.
C21_FreshToken ==
    LET ev == direct.out.events IN
      direct.fn # None =>
        /\ \A i \in DOMAIN ev :
             IsApiRequest(ev[i]) =>
                 /\ i > 1
                 /\ IsRefresh(ev[i - 1])
                 /\ ev[i - 1].x = ev[i].x
                 /\ \A j \in 1..(i - 1) : IsApiRequest(ev[j]) => ev[j].x # ev[i].x
        /\ \A i, j \in DOMAIN ev :
             IsRefresh(ev[i]) /\ IsRefresh(ev[j]) /\ i # j => ev[i].x # ev[j].x
        /\ \A i \in DOMAIN ev :
             IsRefresh(ev[i]) =>
                 IF i < Len(ev)
                 THEN IsApiRequest(ev[i + 1])
                 ELSE direct.out.raised = "DropboxError"
        /\ (direct.fn = "download_latest" /\ direct.out.raised = None) =>
             Cardinality({ i \in DOMAIN ev : IsRefresh(ev[i]) }) = 2

\* download_latest returned after two refreshes and two API requests
C21_Witness ==
    /\ direct.fn = "download_latest"
    /\ direct.out.raised = None
    /\ Cardinality({ i \in DOMAIN direct.out.events :
                        IsApiRequest(direct.out.events[i]) }) = 2
    /\ Cardinality({ i \in DOMAIN direct.out.events :
                        IsRefresh(direct.out.events[i]) }) = 2

\* the positions of main() that are the non-terminal states of a run:
\* Downloading, ArtifactValidating, Restoring (probe and commands),
\* Exporting, ExportValidating, CleaningUp
NonTerminal ==
    {"download", "validate_backup", "ensure_db", "restore", "export",
     "validate_csv", "cleanup"}

Running(p) == pc[p] = "load_config" \/ pc[p] \in NonTerminal

\* main() has returned 0 after its six stages, or 1 from an except clause
\* before the sixth stage returned
Terminal(p) ==
    /\ pc[p] = "exit"
    /\ \/ rc[p] = <<0>> /\ exc[p] = None /\ Has(trace[p], Ok(StageCount))
       \/ rc[p] = <<1>> /\ exc[p] # None /\ ~Has(trace[p], Ok(StageCount))

\* the next statement of p raises
FailsNow(p) == Stages(p) /\ exc'[p] # None

\* what decides whether the stage p is in can fail: the requests, the
\* probe, the commands and the query can always fail; the two validations
\* fail on a bad file, and the cleanup on an unlink, if it has one to make
MayFail(p) ==
    CASE pc[p] = "validate_backup" ->
             validate_backup_file(backups[Stamp(p)]) # "ok"
      [] pc[p] = "validate_csv" -> ~validate_csv(exports[Stamp(p)]).valid
      [] pc[p] = "cleanup" ->
             Cardinality(Glob(exports)) > KeepCount(<<>>, cfg.max_csv_files)
      [] OTHER -> TRUE

\* C22: with every call main() waits for returning or raising, a run that
\* has started ends, in exactly one of Succeeded and Failed; and every
\* non-terminal stage has a step to Failed: always for the download, the
\* probe, the restore and the export, and exactly when the file is bad or
\* there is a file to unlink for the validations and the cleanup (states
\* which are reached: C22_Witness).
C22_Termination ==
    \A p \in Procs :
        /\ Running(p) ~> Terminal(p)
        /\ [](pc[p] = "exit" => Terminal(p))
        /\ [](pc[p] \in NonTerminal => (MayFail(p) <=> ENABLED FailsNow(p)))

\* runs have ended Failed in the artifact validation, in the export
\* validation and in the cleanup
C22_Witness ==
    /\ {"validate_backup", "validate_csv", "cleanup"} \subseteq failedIn.at
    /\ \E p \in Procs : Terminal(p) /\ Failed(p)

\* the run of p ended in an except clause, and the last thing it did
\* belongs to the download, the artifact validation or the restore
FailedBeforeExport(p) ==
    /\ Failed(p)
    /\ trace[p] # <<>>
    /\ StageOf(trace[p][Len(trace[p])]) \in 1..3

\* C23: a run that fails in the download, the artifact validation or the
\* restore leaves the export directory as it was when the run started, file
\* by file, and get_latest_csv selects what it would have selected then.
C23_EarlyFailureFrame ==
    \A p \in Procs :
        FailedBeforeExport(p) =>
            /\ exports = exports0[p]
            /\ get_latest_csv(exports) = get_latest_csv(exports0[p])

\* a run failed at a restore command, with exports in the directory, and the
\* bot has loaded the newest of them
C23_Witness ==
    \E p \in Procs :
        /\ FailedBeforeExport(p)
        /\ IsCommand(trace[p][Len(trace[p])])
        /\ Glob(exports0[p]) # {}
        /\ bot.csv_path # <<>>
        /\ bot.csv_path[1] \in get_latest_csv(exports0[p])
        /\ bot.df = exports[bot.csv_path[1]]

\* this step is the return 0 of the run of p
ReturnsZero(p) == pc[p] = "cleanup" /\ pc'[p] = "exit" /\ exc'[p] = None

\* after this step the export of the run of p is in the directory and is
\* what get_latest_csv selects
OwnExportLatest(p) ==
    /\ exports'[Stamp(p)] # NoFile
    /\ get_latest_csv(exports') = {Stamp(p)}

\* C24 as stated: with max_csv_files >= 1, when a run returns 0 its own
\* export is still in the export directory and is the file get_latest_csv
\* selects.
C24_OwnExportKept ==
    [][\A p \in Procs :
          ReturnsZero(p) /\ cfg.max_csv_files >= 1 => OwnExportLatest(p)]_vars

\* C24, amended: the same, for runs none of which was started while another
\* one was in progress.
C24_OwnExportKeptAlone ==
    [][\A p \in Procs :
          ReturnsZero(p) /\ cfg.max_csv_files >= 1 /\ ~overlap
              => OwnExportLatest(p)]_vars

\* a run that overlapped no other has returned 0 after its cleanup unlinked
\* older exports, and its own export is the newest file of the directory
C24_Witness ==
    \E p \in Procs :
        /\ Succeeded(p)
        /\ ~overlap
        /\ cfg.max_csv_files >= 1
        /\ \E i \in DOMAIN trace[p] : trace[p][i].e = "unlink"
        /\ exports[Stamp(p)] # NoFile
        /\ get_latest_csv(exports) = {Stamp(p)}

\* the destination of the direct call of download_latest
Destination == backups[FirstMinute]

\* s is t with events left out
RECURSIVE IsSubSeq(_, _)
IsSubSeq(s, t) ==
    IF s = <<>> THEN TRUE
    ELSE IF t = <<>> THEN FALSE
    ELSE IF Head(s) = Head(t) THEN IsSubSeq(Tail(s), Tail(t))
    ELSE IsSubSeq(s, Tail(t))

Consistent(b) ==
    \/ b.csv_path = <<>> /\ b.df = NoFile /\ b.csv_loaded_at = <<>>
    \/ /\ b.csv_path # <<>>
       /\ b.read_from = b.csv_path
       /\ b.df # NoFile
       /\ b.csv_loaded_at = <<b.df.mtime>>

\* C26: whenever load_csv is not running, after any reload attempts, the
\* recorded path, the loaded rows and the loaded-at time refer to the same
\* export file (a failed reload having left all three as they were).
C26_LoadedConsistent == bot.at = "idle" => Consistent(bot)
=============================================================================
